---- MODULE Spec2Model ----
(***************************************************************************)
(* The REST back ends of my-rest-app as a state machine.                   *)
(*                                                                         *)
(* Three server programs listen on port 8080, so exactly one of them runs: *)
(*   "users"      the in-memory users server (src/unnamed/part_001)        *)
(*   "tasks"      the MySQL tasks server file (src/unnamed/part_003),      *)
(*                which never requires ./db: `db` is an undeclared         *)
(*                identifier in every handler of that file                 *)
(*   "tasksGuide" the same tasks server as listed in the guide             *)
(*                (src/unnamed/part_004, 489-562), which does               *)
(*                `const db = require('./db')`                             *)
(* A string (a path parameter) is a sequence of one-character strings.     *)
(***************************************************************************)
EXTENDS Integers, Sequences, FiniteSets, TLC

VARIABLES
    server,     \* which server program is running
    users,      \* part_001: the module-level array `users`
    tasks,      \* the rows of table tasks, in primary-key order
    autoInc,    \* the AUTO_INCREMENT counter of table tasks
    inflight,   \* tasks handlers suspended at an await
    served,     \* number of requests received so far
    log,        \* the most recent completed exchanges, oldest first
    autoStore,  \* an auto-increment store given the creates of the users store
    comp,       \* UsersComponent: its fields users and newUser
    load,       \* UsersComponent: where the constructor's subscription stands
    net,        \* the HTTP exchanges UserService started, in the order of issue
    issued,     \* number of HTTP requests UserService has issued
    fetches,    \* number of getUsers() calls
    cb,         \* the latest callback a subscriber of UserService was given
    ui          \* what the user was shown (alert) and what console.error got

clientVars == <<comp, load, net, issued, fetches, cb, ui>>

serverVars == <<server, users, tasks, autoInc, inflight, served, log, autoStore>>

vars == <<server, users, tasks, autoInc, inflight, served, log, autoStore,
          comp, load, net, issued, fetches, cb, ui>>

\* Bounds of the model: the number of requests a run receives, and the number
\* of completed exchanges the state remembers.
MaxRequests == 3
MaxLog == 2

(***************************************************************************)
(* Inputs                                                                  *)
(***************************************************************************)
Names == {"Ada", "Bob"}
Emails == {"ada@x.com"}
Titles == {"t1"}
Descriptions == {"d"}
\* ids a request body may carry: the client placeholder 0, or an existing id
BodyIds == {0, 1}

\* path parameters :id sent to the users server and to the tasks server
PathIds ==
    { <<"1">>, <<"2">>, <<"3">>, <<"9", "9">>, <<"a", "b", "c">>, <<"1", "}">> }
TaskPathIds ==
    { <<"1">>, <<"2">>, <<"a", "b", "c">> }

UserDrafts == [name : Names, email : Emails]
UserBodies == UserDrafts \cup [id : BodyIds, name : Names, email : Emails]
TaskDrafts == [title : Titles, description : Descriptions]
TaskBodies == TaskDrafts \cup [id : BodyIds, title : Titles, description : Descriptions]

(***************************************************************************)
(* JavaScript and SQL conversions                                          *)
(***************************************************************************)
Digits == {"0", "1", "2", "3", "4", "5", "6", "7", "8", "9"}

DigitVal(c) ==
    CASE c = "0" -> 0 [] c = "1" -> 1 [] c = "2" -> 2 [] c = "3" -> 3
      [] c = "4" -> 4 [] c = "5" -> 5 [] c = "6" -> 6 [] c = "7" -> 7
      [] c = "8" -> 8 [] c = "9" -> 9

\* index of the first character of s at or after i that is not white space
RECURSIVE SkipSpace(_, _)
SkipSpace(s, i) ==
    IF i <= Len(s) /\ s[i] = " " THEN SkipSpace(s, i + 1) ELSE i

\* the longest run of decimal digits of s from index i: its value and its end
RECURSIVE DigitRun(_, _, _)
DigitRun(s, i, acc) ==
    IF i <= Len(s) /\ s[i] \in Digits
    THEN DigitRun(s, i + 1, acc * 10 + DigitVal(s[i]))
    ELSE [val |-> acc, end |-> i]

NaN == [nan |-> TRUE]

\* parseInt(string) with no radix: leading white space, an optional sign, then
\* the longest prefix of decimal digits; NaN when there is no digit.
parseInt(s) ==
    LET i0 == SkipSpace(s, 1)
        signed == i0 <= Len(s) /\ s[i0] \in {"+", "-"}
        i1 == IF signed THEN i0 + 1 ELSE i0
        run == DigitRun(s, i1, 0)
    IN  IF run.end = i1 THEN NaN
        ELSE [nan |-> FALSE,
              val |-> IF signed /\ s[i0] = "-" THEN 0 - run.val ELSE run.val]

\* `user.id === id` where id is a parseInt result: NaN equals nothing
StrictEq(n, id) == ~id.nan /\ n = id.val

\* MySQL comparing an INT column with a bound string parameter: the string is
\* converted to a number, its longest numeric prefix, 0 when there is none.
\* (A server in strict SQL mode rejects an UPDATE or DELETE with such a string
\* instead: that is one of the rejected queries of the handlers below.)
SqlNum(s) ==
    LET p == parseInt(s) IN IF p.nan THEN 0 ELSE p.val

(***************************************************************************)
(* The users server (in-memory array)                                      *)
(***************************************************************************)
SeedUsers ==
    << [id |-> 1, name |-> "Mario Rossi", email |-> "mario@prova.com"],
       [id |-> 2, name |-> "Giulia Bianchi", email |-> "giulia@prova.com"] >>

\* mutant of MathMax: Math.min in place of Math.max
RECURSIVE MathMax_min(_)
MathMax_min(xs) ==
    IF Len(xs) = 1 THEN xs[1]
    ELSE LET m == MathMax_min(Tail(xs)) IN IF xs[1] < m THEN xs[1] ELSE m

\* Math.max(...xs) of a non-empty sequence of numbers
RECURSIVE MathMax(_)
MathMax(xs) ==
    IF Len(xs) = 1 THEN xs[1]
    ELSE LET m == MathMax(Tail(xs)) IN IF xs[1] > m THEN xs[1] ELSE m

\* list.map(u => u.id)
MapId(list) == [i \in DOMAIN list |-> list[i].id]

\* mutant of NextUserId: the next id is users.length + 1
NextUserId_length(list) == Len(list) + 1

\* users.length ? Math.max(...users.map(u => u.id)) + 1 : 1
NextUserId(list) ==
    IF Len(list) # 0 THEN MathMax(MapId(list)) + 1 ELSE 1

\* mutant of SetId: an id the body carries is kept
SetId_keepClientId(body, n) ==
    IF "id" \in DOMAIN body THEN body
    ELSE [f \in DOMAIN body \cup {"id"} |-> IF f = "id" THEN n ELSE body[f]]

\* newUser = req.body; newUser.id = ...: the body object itself, its id (re)set
SetId(body, n) ==
    [f \in DOMAIN body \cup {"id"} |-> IF f = "id" THEN n ELSE body[f]]

\* users.findIndex(user => user.id === id): 0 stands for -1
findIndex(list, id) ==
    IF \E i \in DOMAIN list : StrictEq(list[i].id, id)
    THEN CHOOSE i \in DOMAIN list :
            /\ StrictEq(list[i].id, id)
            /\ \A j \in 1..(i - 1) : ~StrictEq(list[j].id, id)
    ELSE 0

\* mutant of splice: users.splice(index), which removes up to the end
splice_toEnd(list, index) == SubSeq(list, 1, index - 1)

\* users.splice(index, 1): the array without the element at index
splice(list, index) ==
    [i \in 1..(Len(list) - 1) |-> IF i < index THEN list[i] ELSE list[i + 1]]

\* One completed exchange. by: who wrote the response ("handler", or "express"
\* when the framework's default error handler answered an escaped exception);
\* threw: an exception escaped the handler; logged: the error the handler
\* passed to console.error ("none", "ref" for the ReferenceError on `db`, or
\* the error of a rejected query); pre/post: the store when the request was received and
\* when the exchange ended.
Exchange(rid, op, arg, status, body, by, threw, logged, pre, post) ==
    [rid |-> rid, op |-> op, arg |-> arg, status |-> status, body |-> body,
     by |-> by, threw |-> threw, logged |-> logged, pre |-> pre, post |-> post]

\* the exchange e is completed: it is remembered, the oldest one forgotten
Record(e) ==
    LET all == Append(log, e)
    IN  IF Len(all) > MaxLog THEN Tail(all) ELSE all

\* Express's default error handler answering `ReferenceError: esle is not defined`
EsleError == [html |-> "ReferenceError: esle is not defined"]

\* app.get('/api/users')
GetUsers ==
    /\ server = "users"
    /\ served < MaxRequests
    /\ served' = served + 1
    /\ log' = Record(Exchange(served + 1, "GET_USERS", <<>>, 200, users,
                                   "handler", FALSE, "none", users, users))
    /\ UNCHANGED <<server, users, tasks, autoInc, inflight>>

\* app.post('/api/users')
PostUser(body) ==
    /\ server = "users"
    /\ served < MaxRequests
    /\ LET newUser == SetId(body, NextUserId(users))
       IN  /\ users' = Append(users, newUser)
           /\ log' = Record(Exchange(served + 1, "POST_USER", body, 200, newUser,
                                          "handler", FALSE, "none", users, users'))
    /\ served' = served + 1
    /\ UNCHANGED <<server, tasks, autoInc, inflight>>

\* app.delete('/api/users/:id'). After the if statement the handler evaluates
\* the undeclared identifier `esle` (a statement of its own, by automatic
\* semicolon insertion), which throws ReferenceError on every call; the block
\* with the 404 after it is never reached. When the response is already sent
\* Express only closes the connection, otherwise its default error handler
\* answers 500.
DeleteUser(path) ==
    /\ server = "users"
    /\ served < MaxRequests
    /\ LET id == parseInt(path)
           index == findIndex(users, id)
       IN  IF index # 0
           THEN /\ users' = splice(users, index)
                /\ log' = Record(Exchange(served + 1, "DELETE_USER", path, 200,
                                               users[index], "handler", TRUE, "none",
                                               users, users'))
           ELSE /\ users' = users
                /\ log' = Record(Exchange(served + 1, "DELETE_USER", path, 500,
                                               EsleError, "express", TRUE, "none",
                                               users, users))
    /\ served' = served + 1
    /\ UNCHANGED <<server, tasks, autoInc, inflight>>

(***************************************************************************)
(* The tasks server (MySQL table tasks behind db.query)                    *)
(***************************************************************************)
\* `db` is bound only where the file requires ./db (part_004, line 493);
\* part_003 has no such line, and there evaluating `db.query` throws
\* ReferenceError inside the handler's try block.
dbInScope == server = "tasksGuide"

\* the table as a value: its rows and its AUTO_INCREMENT counter
TaskStore == [rows |-> tasks, autoInc |-> autoInc]

\* tables the server may find when it starts: the table as CREATE TABLE leaves
\* it, or one holding a task that is not completed
InitTables ==
    { [rows |-> <<>>, autoInc |-> 1],
      [rows |-> << [id |-> 1, title |-> "t0", description |-> "d", completed |-> 0] >>,
       autoInc |-> 2] }

\* WHERE id = ? with the path parameter bound as a string
IdMatches(row, path) == row.id = SqlNum(path)

\* UPDATE tasks SET completed = NOT completed WHERE id = ?
SqlToggle(rows, path) ==
    [i \in DOMAIN rows |->
        IF IdMatches(rows[i], path)
        THEN [rows[i] EXCEPT !.completed = 1 - @]
        ELSE rows[i]]

\* SELECT * FROM tasks WHERE id = ?
SqlSelect(rows, path) ==
    LET Hit(row) == IdMatches(row, path) IN SelectSeq(rows, Hit)

\* DELETE FROM tasks WHERE id = ?
SqlDelete(rows, path) ==
    LET Keep(row) == ~IdMatches(row, path) IN SelectSeq(rows, Keep)

\* mutant of SqlInsertRow: the bound parameters in the wrong order
SqlInsertRow_swapped(n, title, description) ==
    [id |-> n, title |-> description, description |-> title, completed |-> 0]

\* INSERT INTO tasks (title, description, completed) VALUES (?, ?, false):
\* the row stored under the next AUTO_INCREMENT value (BOOLEAN is TINYINT(1))
SqlInsertRow(n, title, description) ==
    [id |-> n, title |-> title, description |-> description, completed |-> 0]

\* res.json(undefined): a 200 response with no body
Undefined == [undefined |-> TRUE]

\* the body of the 500 response of each handler's catch block
ErrorBody(op) ==
    CASE op = "GET_TASKS" -> [error |-> "Errore nel recupero tasks"]
      [] op = "POST_TASK" -> [error |-> "Errore creazione task"]
      [] op = "PATCH_TASK" -> [error |-> "Errore toggle task"]
      [] op = "DELETE_TASK" -> [error |-> "Errore eliminazione task"]

\* catch (error) { console.error(..., error); res.status(500).json({error: ...}) }
Caught(rid, op, arg, logged, pre) ==
    Exchange(rid, op, arg, 500, ErrorBody(op), "handler", FALSE, logged, pre, TaskStore)

\* The synchronous start of a tasks handler, up to its first await. lim is the
\* number of handlers that may be suspended at once.
Begin(op, arg, pc, lim) ==
    /\ server \in {"tasks", "tasksGuide"}
    /\ served < MaxRequests
    /\ Cardinality(inflight) < lim
    /\ served' = served + 1
    /\ IF dbInScope
       THEN /\ inflight' = inflight \cup
                    {[rid |-> served + 1, op |-> op, arg |-> arg, pc |-> pc,
                      pre |-> TaskStore]}
            /\ log' = log
       ELSE /\ inflight' = inflight
            /\ log' = Record(Caught(served + 1, op, arg, "ref", TaskStore))
    /\ UNCHANGED <<server, users, tasks, autoInc>>

\* a handler's last step: it answers and is gone
Answer(r, status, body, logged) ==
    /\ inflight' = inflight \ {r}
    /\ log' = Record(Exchange(r.rid, r.op, r.arg, status, body, "handler",
                                   FALSE, logged, r.pre,
                                   [rows |-> tasks', autoInc |-> autoInc']))

\* what awaiting db.query can give: the result of the statement, or a
\* rejection with the driver's error (its code stands for its message too)
DbErrors == {"ECONNREFUSED", "ER_LOCK_DEADLOCK"}
QueryResults == {"ok"} \cup DbErrors

\* mutant of Rejected: the catch block sends the error it caught
Rejected_leaksError(r, err) ==
    /\ UNCHANGED <<tasks, autoInc>>
    /\ Answer(r, 500, [error |-> err], err)

\* mutant of Rejected: the handler answers 200 with the rows after logging
Rejected_answers200(r, err) ==
    /\ UNCHANGED <<tasks, autoInc>>
    /\ Answer(r, 200, tasks, err)

\* a query of handler r was rejected with error err: the catch block logs the
\* error and answers 500 with the handler's fixed body
Rejected(r, err) ==
    /\ UNCHANGED <<tasks, autoInc>>
    /\ Answer(r, 500, ErrorBody(r.op), err)

\* app.get('/api/tasks')
GetTasksBegin(lim) == Begin("GET_TASKS", <<>>, "select", lim)

GetTasksReply(r, res) ==
    /\ r \in inflight /\ r.op = "GET_TASKS" /\ r.pc = "select"
    /\ IF res = "ok"
       THEN /\ UNCHANGED <<tasks, autoInc>>
            /\ Answer(r, 200, tasks, "none")
       ELSE Rejected(r, res)
    /\ UNCHANGED <<server, users, served>>

\* app.post('/api/tasks')
PostTaskBegin(body, lim) == Begin("POST_TASK", body, "insert", lim)

PostTaskReply(r, res) ==
    /\ r \in inflight /\ r.op = "POST_TASK" /\ r.pc = "insert"
    /\ IF res = "ok"
       THEN /\ tasks' = Append(tasks,
                             SqlInsertRow(autoInc, r.arg.title, r.arg.description))
            /\ autoInc' = autoInc + 1
            /\ Answer(r, 200,
                      [id |-> autoInc, title |-> r.arg.title,
                       description |-> r.arg.description, completed |-> FALSE],
                      "none")
       ELSE Rejected(r, res)
    /\ UNCHANGED <<server, users, served>>

\* app.patch('/api/tasks/:id')
PatchTaskBegin(path, lim) == Begin("PATCH_TASK", path, "update", lim)

\* await db.query('UPDATE ...') returns; from here on pre is the table the
\* UPDATE found (the table of the handler's start when no other handler ran
\* in between)
PatchTaskUpdated(r, res) ==
    /\ r \in inflight /\ r.op = "PATCH_TASK" /\ r.pc = "update"
    /\ IF res = "ok"
       THEN /\ tasks' = SqlToggle(tasks, r.arg)
            /\ autoInc' = autoInc
            /\ inflight' = (inflight \ {r}) \cup
                            {[r EXCEPT !.pc = "select", !.pre = TaskStore]}
            /\ log' = log
       ELSE Rejected(r, res)
    /\ UNCHANGED <<server, users, served>>

\* await db.query('SELECT ...') returns; res.json(rows[0])
PatchTaskSelected(r, res) ==
    /\ r \in inflight /\ r.op = "PATCH_TASK" /\ r.pc = "select"
    /\ IF res = "ok"
       THEN /\ UNCHANGED <<tasks, autoInc>>
            /\ LET rows == SqlSelect(tasks, r.arg)
               IN  Answer(r, 200, IF Len(rows) > 0 THEN rows[1] ELSE Undefined, "none")
       ELSE Rejected(r, res)
    /\ UNCHANGED <<server, users, served>>

\* app.delete('/api/tasks/:id')
DeleteTaskBegin(path, lim) == Begin("DELETE_TASK", path, "delete", lim)

DeleteTaskReply(r, res) ==
    /\ r \in inflight /\ r.op = "DELETE_TASK" /\ r.pc = "delete"
    /\ IF res = "ok"
       THEN /\ tasks' = SqlDelete(tasks, r.arg)
            /\ autoInc' = autoInc
            /\ Answer(r, 200, [success |-> TRUE], "none")
       ELSE Rejected(r, res)
    /\ UNCHANGED <<server, users, served>>

(***************************************************************************)
(* An AUTO_INCREMENT primary key (id INT AUTO_INCREMENT PRIMARY KEY) that  *)
(* is given every create the users store is given: next is its counter,    *)
(* last the id it gave the latest create (0 before the first one).         *)
(* Removals leave the counter alone.                                       *)
(***************************************************************************)
AutoStart(list) ==
    [next |-> IF Len(list) # 0 THEN MathMax(MapId(list)) + 1 ELSE 1, last |-> 0]

AutoCreate == autoStore' = [next |-> autoStore.next + 1, last |-> autoStore.next]

(***************************************************************************)
(* The Angular client: UserService (the gateway) and UsersComponent        *)
(***************************************************************************)
\* number of HTTP exchanges the client starts in a run
MaxExchanges == 2

\* number of tasks handlers that may be suspended at an await at once
MaxSuspended == 2

\* number of HTTP exchanges the client starts in a run in which none fails
MaxRaceExchanges == 3

\* newUser: User = {id: 0, name: '', email: ''}
EmptyUser == [id |-> 0, name |-> "", email |-> ""]

\* what the user may type into the form bound to newUser
TypedUsers == {[id |-> 0, name |-> "Ada", email |-> "ada@x.com"]}

\* ids the user may ask to remove
RemoveIds == {1, 3}

NoCallback == [op |-> "none"]

\* an exchange whose outcome the subscriber has been given
Settled == [stage |-> "settled"]

\* the exchanges on their way
Pending == {i \in 1..Len(net) : net[i].stage # "settled"}

DigitChar(d) ==
    CASE d = 0 -> "0" [] d = 1 -> "1" [] d = 2 -> "2" [] d = 3 -> "3"
      [] d = 4 -> "4" [] d = 5 -> "5" [] d = 6 -> "6" [] d = 7 -> "7"
      [] d = 8 -> "8" [] d = 9 -> "9"

\* a number in a template literal: its decimal digits, "-" first when negative
RECURSIVE NatToStr(_)
NatToStr(n) ==
    IF n < 10 THEN <<DigitChar(n)>>
    ELSE Append(NatToStr(n \div 10), DigitChar(n % 10))

NumToStr(n) == IF n < 0 THEN <<"-">> \o NatToStr(0 - n) ELSE NatToStr(n)

\* mutant of RemovePath: the stray brace in front of the id
RemovePath_braceFirst(id) == <<"}">> \o NumToStr(id)

\* `${this.apiUrl}/${id}}`: the last path segment of the DELETE request
RemovePath(id) == NumToStr(id) \o <<"}">>

\* app.delete('/api/users/:id'): the route takes a request whose path has one
\* non-empty segment without "/" after /api/users/
MatchesIdRoute(segment) ==
    /\ Len(segment) > 0
    /\ \A i \in DOMAIN segment : segment[i] # "/"

\* HttpClient: a 2xx response is a value, anything else an HttpErrorResponse
\* (status 0 when the exchange failed in transport)
HttpOk(status) == status >= 200 /\ status < 300

\* console.error label and Error message of each catchError
GatewayLabel(op) ==
    CASE op = "getUsers" -> "Errore nel recupero utenti"
      [] op = "addUser" -> "Errore nell'aggiunta utente"
      [] op = "removeUser" -> "Errore nella cancellazione utente"

\* mutant of GatewayError: catchError rethrows the HttpErrorResponse it caught
GatewayError_rethrow(op, raw) ==
    [name |-> "HttpErrorResponse", message |-> "Http failure response",
     status |-> raw.status]

\* throwError(() => new Error('...'))
GatewayError(op, raw) ==
    [name |-> "Error",
     message |-> CASE op = "getUsers" -> "Errore nel recupero degli utenti"
                   [] op = "addUser" -> "Errore nell'aggiunta dell'utente."
                   [] op = "removeUser" -> "Errore nella cancellazione dell'utente."]

\* what the observable returned by UserService gives its subscriber for the
\* HTTP outcome raw = [status, body]
Gateway(op, raw) ==
    IF HttpOk(raw.status)
    THEN [kind |-> "next", value |-> raw.body]
    ELSE [kind |-> "error", value |-> GatewayError(op, raw)]

\* UserService issues one HTTP request; lim is the number of exchanges the
\* client may start in the run
Issue(op, method, arg, lim) ==
    /\ issued < lim
    /\ issued' = issued + 1
    /\ net' = Append(net, [cid |-> issued + 1, op |-> op, method |-> method,
                            arg |-> arg, stage |-> "request", status |-> 0,
                            body |-> <<>>])

\* the callback given to the subscriber, with the component before and after
Callback(m, out, after) ==
    [cid |-> m.cid, op |-> m.op, arg |-> m.arg, kind |-> out.kind,
     value |-> out.value, raw |-> [status |-> m.status, body |-> m.body],
     before |-> comp, after |-> after]

\* catchError's console.error, when the exchange failed
GatewayLogs(m) ==
    IF HttpOk(m.status) THEN {} ELSE {GatewayLabel(m.op)}

\* mutant of LoadNext: the fetched users are added to the local ones
LoadNext_concat(c, data) == [c EXCEPT !.users = @ \o data]

\* next: (data) => { this.users = data; }
LoadNext(c, data) == [c EXCEPT !.users = data]

\* mutant of AddNext: the draft is pushed, not the saved user
AddNext_pushDraft(c, savedUser) ==
    [c EXCEPT !.users = Append(@, c.newUser), !.newUser = EmptyUser]

\* next: (savedUser) => { this.users.push(savedUser); this.newUser = {...} }
AddNext(c, savedUser) ==
    [c EXCEPT !.users = Append(@, savedUser), !.newUser = EmptyUser]

\* mutant of AddError: the failed draft is cleared
AddError_clearsDraft(c) == [c EXCEPT !.newUser = EmptyUser]

\* error: (err) => { console.error('Errore aggiunta utente', err); }
AddError(c) == c

\* mutant of RemoveNext: the filter keeps the removed id
RemoveNext_keeps(c, id) ==
    LET Same(user) == user.id = id
    IN  [c EXCEPT !.users = SelectSeq(@, Same)]

\* next: deleted => this.users = this.users.filter(user => user.id !== id)
RemoveNext(c, id) ==
    LET Differs(user) == user.id # id
    IN  [c EXCEPT !.users = SelectSeq(@, Differs)]

\* constructor(): this.userService.getUsers().subscribe(...)
Construct(lim) ==
    /\ load = "Idle"
    /\ Issue("getUsers", "GET", <<>>, lim)
    /\ load' = "Loading"
    /\ fetches' = fetches + 1
    /\ UNCHANGED <<comp, cb, ui>>
    /\ UNCHANGED serverVars

\* the form's two-way binding writes newUser
TypeDraft(user) ==
    /\ load # "Idle"
    /\ comp.newUser # user
    /\ comp' = [comp EXCEPT !.newUser = user]
    /\ UNCHANGED <<load, net, issued, fetches, cb, ui>>
    /\ UNCHANGED serverVars

\* addUser(): this.userService.addUser(this.newUser).subscribe(...)
AddUser(lim) ==
    /\ load # "Idle"
    /\ Issue("addUser", "POST", comp.newUser, lim)
    /\ UNCHANGED <<comp, load, fetches, cb, ui>>
    /\ UNCHANGED serverVars

\* removeUser(id): this.userService.removeUser(id).subscribe(...)
RemoveUser(id, lim) ==
    /\ load # "Idle"
    /\ Issue("removeUser", "DELETE", id, lim)
    /\ UNCHANGED <<comp, load, fetches, cb, ui>>
    /\ UNCHANGED serverVars

\* the response the server wrote to the latest request, on its way back
Responded(m) ==
    LET e == log'[Len(log')]
    IN  /\ net' = [net EXCEPT ![m.cid] = [m EXCEPT !.stage = "response",
                                                  !.status = e.status,
                                                  !.body = e.body]]
        /\ UNCHANGED <<comp, load, issued, fetches, cb, ui>>

\* a request reaches the users server, whose route handler runs
ServerReceives(m) ==
    /\ m.stage = "request"
    /\ CASE m.method = "GET" -> GetUsers /\ UNCHANGED autoStore
         [] m.method = "POST" -> PostUser(m.arg) /\ AutoCreate
         [] m.method = "DELETE" -> DeleteUser(RemovePath(m.arg)) /\ UNCHANGED autoStore
    /\ Responded(m)

\* an exchange fails in transport, before or after the server handled it:
\* HttpClient reports an HttpErrorResponse of status 0
TransportFails(m) ==
    /\ m.stage = "request" \/ (m.stage = "response" /\ HttpOk(m.status))
    /\ net' = [net EXCEPT ![m.cid] = [m EXCEPT !.stage = "response",
                                              !.status = 0, !.body = <<>>]]
    /\ UNCHANGED <<comp, load, issued, fetches, cb, ui>>
    /\ UNCHANGED serverVars

\* the outcome of getUsers() reaches the constructor's subscriber
LoadResult(m) ==
    /\ m.stage = "response" /\ m.op = "getUsers"
    /\ LET out == Gateway(m.op, [status |-> m.status, body |-> m.body])
           after == IF out.kind = "next" THEN LoadNext(comp, out.value) ELSE comp
       IN  /\ comp' = after
           /\ load' = IF out.kind = "next" THEN "Loaded" ELSE "LoadFailed"
           /\ cb' = Callback(m, out, after)
           /\ ui' = [ui EXCEPT !.console = @ \cup GatewayLogs(m) \cup
                        (IF out.kind = "error" THEN {"Errore caricamento utenti"}
                         ELSE {})]
    /\ net' = [net EXCEPT ![m.cid] = Settled]
    /\ UNCHANGED <<issued, fetches>>
    /\ UNCHANGED serverVars

\* the outcome of addUser() reaches addUser's subscriber
AddResult(m) ==
    /\ m.stage = "response" /\ m.op = "addUser"
    /\ LET out == Gateway(m.op, [status |-> m.status, body |-> m.body])
           after == IF out.kind = "next" THEN AddNext(comp, out.value)
                    ELSE AddError(comp)
       IN  /\ comp' = after
           /\ cb' = Callback(m, out, after)
           /\ ui' = [ui EXCEPT !.console = @ \cup GatewayLogs(m) \cup
                        (IF out.kind = "error" THEN {"Errore aggiunta utente"}
                         ELSE {})]
    /\ net' = [net EXCEPT ![m.cid] = Settled]
    /\ UNCHANGED <<load, issued, fetches>>
    /\ UNCHANGED serverVars

\* the outcome of removeUser(id) reaches removeUser's subscriber
RemoveResult(m) ==
    /\ m.stage = "response" /\ m.op = "removeUser"
    /\ LET out == Gateway(m.op, [status |-> m.status, body |-> m.body])
           after == IF out.kind = "next" THEN RemoveNext(comp, m.arg) ELSE comp
       IN  /\ comp' = after
           /\ cb' = Callback(m, out, after)
           /\ ui' = [alerts |-> ui.alerts \cup
                        (IF out.kind = "error" THEN {out.value.message} ELSE {}),
                     console |-> ui.console \cup GatewayLogs(m)]
    /\ net' = [net EXCEPT ![m.cid] = Settled]
    /\ UNCHANGED <<load, issued, fetches>>
    /\ UNCHANGED serverVars

(***************************************************************************)
(* Specification: requests are handled one at a time                       *)
(***************************************************************************)
\* The users server starts with its seeded array; the array emptied by
\* removals is a start too, so that runs of creates from the empty store fit
\* in MaxRequests. A tasks server starts on one of InitTables.
Init ==
    /\ \/ /\ server = "users"
          /\ users \in {SeedUsers, <<>>}
          /\ tasks = <<>> /\ autoInc = 1
       \/ /\ server \in {"tasks", "tasksGuide"}
          /\ users = <<>>
          /\ \E t \in InitTables : tasks = t.rows /\ autoInc = t.autoInc
    /\ inflight = {}
    /\ served = 0
    /\ log = <<>>
    /\ autoStore = AutoStart(users)
    /\ comp = [users |-> <<>>, newUser |-> EmptyUser]
    /\ load = "Idle"
    /\ net = <<>>
    /\ issued = 0
    /\ fetches = 0
    /\ cb = NoCallback
    /\ ui = [alerts |-> {}, console |-> {}]

Next ==
    \/ GetUsers /\ UNCHANGED <<autoStore, clientVars>>
    \/ \E body \in UserBodies : PostUser(body) /\ AutoCreate /\ UNCHANGED clientVars
    \/ \E path \in PathIds : DeleteUser(path) /\ UNCHANGED <<autoStore, clientVars>>
    \/ GetTasksBegin(1) /\ UNCHANGED <<autoStore, clientVars>>
    \/ \E body \in TaskBodies : PostTaskBegin(body, 1) /\ UNCHANGED <<autoStore, clientVars>>
    \/ \E path \in TaskPathIds : PatchTaskBegin(path, 1) /\ UNCHANGED <<autoStore, clientVars>>
    \/ \E path \in TaskPathIds : DeleteTaskBegin(path, 1) /\ UNCHANGED <<autoStore, clientVars>>
    \/ \E r \in inflight, res \in QueryResults :
          GetTasksReply(r, res) /\ UNCHANGED <<autoStore, clientVars>>
    \/ \E r \in inflight, res \in QueryResults :
          PostTaskReply(r, res) /\ UNCHANGED <<autoStore, clientVars>>
    \/ \E r \in inflight, res \in QueryResults :
          PatchTaskUpdated(r, res) /\ UNCHANGED <<autoStore, clientVars>>
    \/ \E r \in inflight, res \in QueryResults :
          PatchTaskSelected(r, res) /\ UNCHANGED <<autoStore, clientVars>>
    \/ \E r \in inflight, res \in QueryResults :
          DeleteTaskReply(r, res) /\ UNCHANGED <<autoStore, clientVars>>

Spec == Init /\ [][Next]_vars

(***************************************************************************)
(* Specification of the client: one UsersComponent and its UserService     *)
(* talking to the users server; requests and responses travel and arrive   *)
(* in any order, and an exchange may fail in transport.  Fairness: the     *)
(* component is constructed when the application starts, the server        *)
(* handles the getUsers request that reached it (the handler is            *)
(* synchronous), and the browser gives the exchange its outcome.           *)
(***************************************************************************)
ClientInit ==
    /\ Init
    /\ server = "users"
    /\ users = SeedUsers

\* the getUsers exchanges on their way
PendingLoads == {i \in Pending : net[i].op = "getUsers"}

\* where the getUsers exchange stands
LoadExchange == {<<net[i].stage, net[i].status>> : i \in PendingLoads}

LoadServed == \E i \in PendingLoads : ServerReceives(net[i])

LoadOutcome == \E i \in PendingLoads : LoadResult(net[i])

ClientNext ==
    \/ Construct(MaxExchanges)
    \/ \E user \in TypedUsers \cup {EmptyUser} : TypeDraft(user)
    \/ AddUser(MaxExchanges)
    \/ \E id \in RemoveIds : RemoveUser(id, MaxExchanges)
    \/ \E i \in Pending : ServerReceives(net[i])
    \/ \E i \in Pending : TransportFails(net[i])
    \/ \E i \in Pending : LoadResult(net[i])
    \/ \E i \in Pending : AddResult(net[i])
    \/ \E i \in Pending : RemoveResult(net[i])

ClientSpec ==
    /\ ClientInit
    /\ [][ClientNext]_vars
    /\ WF_load(Construct(MaxExchanges))
    /\ WF_LoadExchange(LoadServed)
    /\ WF_load(LoadOutcome)

(***************************************************************************)
(* Specification of the client when no exchange fails in transport:        *)
(* several requests of one UsersComponent are on their way at once, the    *)
(* server handles them in any order (each handler runs to its end before   *)
(* the next starts: the users handlers have no await), and the responses   *)
(* are delivered in any order.                                             *)
(***************************************************************************)
RaceNext ==
    \/ Construct(MaxRaceExchanges)
    \/ \E user \in TypedUsers : TypeDraft(user)
    \/ AddUser(MaxRaceExchanges)
    \/ \E id \in RemoveIds : RemoveUser(id, MaxRaceExchanges)
    \/ \E i \in Pending : ServerReceives(net[i])
    \/ \E i \in Pending : LoadResult(net[i])
    \/ \E i \in Pending : AddResult(net[i])
    \/ \E i \in Pending : RemoveResult(net[i])

RaceSpec == ClientInit /\ [][RaceNext]_vars

(***************************************************************************)
(* Specification of the tasks server under concurrent requests: a handler  *)
(* is suspended at each await, and the handlers of other requests run in   *)
(* between; the database runs the statements one at a time, in the order   *)
(* in which the awaits return.                                             *)
(***************************************************************************)
ConcurrentInit ==
    /\ Init
    /\ server \in {"tasks", "tasksGuide"}

ConcurrentNext ==
    \/ GetTasksBegin(MaxSuspended) /\ UNCHANGED <<autoStore, clientVars>>
    \/ \E body \in TaskBodies :
          PostTaskBegin(body, MaxSuspended) /\ UNCHANGED <<autoStore, clientVars>>
    \/ \E path \in TaskPathIds :
          PatchTaskBegin(path, MaxSuspended) /\ UNCHANGED <<autoStore, clientVars>>
    \/ \E path \in TaskPathIds :
          DeleteTaskBegin(path, MaxSuspended) /\ UNCHANGED <<autoStore, clientVars>>
    \/ \E r \in inflight, res \in QueryResults :
          GetTasksReply(r, res) /\ UNCHANGED <<autoStore, clientVars>>
    \/ \E r \in inflight, res \in QueryResults :
          PostTaskReply(r, res) /\ UNCHANGED <<autoStore, clientVars>>
    \/ \E r \in inflight, res \in QueryResults :
          PatchTaskUpdated(r, res) /\ UNCHANGED <<autoStore, clientVars>>
    \/ \E r \in inflight, res \in QueryResults :
          PatchTaskSelected(r, res) /\ UNCHANGED <<autoStore, clientVars>>
    \/ \E r \in inflight, res \in QueryResults :
          DeleteTaskReply(r, res) /\ UNCHANGED <<autoStore, clientVars>>

ConcurrentSpec == ConcurrentInit /\ [][ConcurrentNext]_vars

(***************************************************************************)
(* Vocabulary of the properties                                            *)
(***************************************************************************)
\* the ids held by a list of entities
Ids(list) == {list[i].id : i \in DOMAIN list}

\* a path parameter that is the decimal numeral of a number, and that number
IsNumeral(path) == Len(path) > 0 /\ \A i \in DOMAIN path : path[i] \in Digits
NumeralVal(path) == DigitRun(path, 1, 0).val

\* a path parameter with no digit in it
NotNumeric(path) == \A i \in DOMAIN path : path[i] \notin Digits

\* the largest id of a non-empty list plus one, 1 for the empty list
MaxPlusOne(list) ==
    IF list = <<>> THEN 1
    ELSE (CHOOSE m \in Ids(list) : \A n \in Ids(list) : n <= m) + 1

\* the list without its entities of id n, the others in their order
Without(list, n) ==
    LET Other(e) == e.id # n IN SelectSeq(list, Other)

\* the remembered exchanges of one operation
Done(op) == {k \in DOMAIN log : log[k].op = op}

(***************************************************************************)
(* C1: in every state reached by create and removeById requests handled    *)
(* one after the other on the in-memory users store, no two stored users   *)
(* have the same id.                                                       *)
(***************************************************************************)
C1_UniqueUserIds ==
    \A i, j \in DOMAIN users : i # j => users[i].id # users[j].id

\* a create handled right after a successful removal, the store holding
\* two users or more
C1_Witness ==
    /\ server = "users"
    /\ Len(users) >= 2
    /\ \E k \in DOMAIN log :
          /\ k + 1 \in DOMAIN log
          /\ log[k].op = "DELETE_USER" /\ log[k].status = 200
          /\ log[k + 1].op = "POST_USER"

(***************************************************************************)
(* C2: a create on the users store assigns max(existing ids) + 1, or 1 on  *)
(* the empty store; so a store holding the ids 1..n in creation order      *)
(* (the store after n creates from empty) yields n + 1, and a store        *)
(* holding the ids {1,2} yields 3.                                         *)
(***************************************************************************)
C2_CreateAssignsMaxPlusOne ==
    \A k \in Done("POST_USER") :
        LET e == log[k] IN
        /\ e.status = 200
        /\ e.body.id = MaxPlusOne(e.pre)
        /\ (e.pre = <<>> => e.body.id = 1)
        /\ ((\A i \in DOMAIN e.pre : e.pre[i].id = i) => e.body.id = Len(e.pre) + 1)
        /\ (Ids(e.pre) = {1, 2} => e.body.id = 3)

\* three creates on the empty store, the third one remembered with id 3
C2_Witness ==
    /\ served = 3
    /\ MapId(users) = <<1, 2, 3>>
    /\ \E k \in Done("POST_USER") :
          /\ k + 1 \in Done("POST_USER")
          /\ Len(log[k].pre) = 1 /\ log[k].body.id = 2
          /\ log[k + 1].body.id = 3

(***************************************************************************)
(* C3: for every create request, of a user or of a task, the id of the     *)
(* stored and of the returned entity is the one the store assigns,         *)
(* whatever id the request body carries (none, the placeholder 0, the id   *)
(* of an existing entity): the body's id does not end up in the store.     *)
(***************************************************************************)
C3_StoreAssignsId ==
    /\ \A k \in Done("POST_USER") :
          LET e == log[k]
              assigned == MaxPlusOne(e.pre)
          IN  e.status = 200 =>
                /\ e.body.id = assigned
                /\ Len(e.post) = Len(e.pre) + 1
                /\ e.post[Len(e.post)].id = assigned
                /\ Ids(e.post) = Ids(e.pre) \cup {assigned}
                /\ assigned \notin Ids(e.pre)
    /\ \A k \in Done("POST_TASK") :
          LET e == log[k]
              assigned == e.pre.autoInc
          IN  e.status = 200 =>
                /\ e.body.id = assigned
                /\ Len(e.post.rows) = Len(e.pre.rows) + 1
                /\ e.post.rows[Len(e.post.rows)].id = assigned
                /\ Ids(e.post.rows) = Ids(e.pre.rows) \cup {assigned}
                /\ assigned \notin Ids(e.pre.rows)

\* a create whose body carries the id of a stored user and one whose body
\* carries the placeholder 0
C3_Witness ==
    \E k \in Done("POST_USER") :
        /\ k + 1 \in Done("POST_USER")
        /\ "id" \in DOMAIN log[k].arg /\ log[k].arg.id = 1 /\ 1 \in Ids(log[k].pre)
        /\ "id" \in DOMAIN log[k + 1].arg /\ log[k + 1].arg.id = 0
        /\ log[k].status = 200 /\ log[k + 1].status = 200

(***************************************************************************)
(* C4: DELETE /api/users/:id for an id that is not in the store is         *)
(* answered with status 404 and an error body, and the store is the same   *)
(* after the request as before it.                                         *)
(***************************************************************************)
C4_DeleteAbsentUserIs404 ==
    \A k \in Done("DELETE_USER") :
        LET e == log[k] IN
        (IsNumeral(e.arg) /\ NumeralVal(e.arg) \notin Ids(e.pre)) =>
            /\ e.status = 404
            /\ "error" \in DOMAIN e.body
            /\ e.post = e.pre

(***************************************************************************)
(* C5: DELETE /api/users/:id for an id that is in the store removes        *)
(* exactly that user, leaves every other user and their order unchanged,   *)
(* and the response is a success response whose body is the removed user.  *)
(***************************************************************************)
C5_DeleteRemovesExactlyThatUser ==
    \A k \in Done("DELETE_USER") :
        LET e == log[k] IN
        (IsNumeral(e.arg) /\ NumeralVal(e.arg) \in Ids(e.pre)) =>
            /\ e.post = Without(e.pre, NumeralVal(e.arg))
            /\ Len(e.post) = Len(e.pre) - 1
            /\ e.status = 200 /\ e.by = "handler"
            /\ e.body.id = NumeralVal(e.arg)
            /\ \E i \in DOMAIN e.pre : e.pre[i] = e.body

\* the first of several users is removed
C5_Witness ==
    \E k \in Done("DELETE_USER") :
        /\ log[k].status = 200
        /\ Len(log[k].pre) >= 2
        /\ log[k].pre[1].id = NumeralVal(log[k].arg)

(***************************************************************************)
(* C6 as amended: after a create succeeds, the list returned by the next   *)
(* GET of the same resource ends with an entity that has the draft's       *)
(* fields with the draft's values, the assigned id and, for a task only,   *)
(* the field completed holding the creation default (false, which the      *)
(* table stores and GET lists as 0), and no other field; the entities      *)
(* stored before are listed unchanged, in their order, before it.          *)
(***************************************************************************)
\* the fields of a request body that make the draft
DraftFields(body) == DOMAIN body \ {"id"}

\* entity e has the draft's fields with the draft's values
KeepsDraft(e, body) == \A f \in DraftFields(body) : f \in DOMAIN e /\ e[f] = body[f]

\* exchange k is a successful create and exchange k + 1 a successful list
CreateThenList(k, create, list) ==
    /\ k \in Done(create) /\ k + 1 \in Done(list)
    /\ log[k].status = 200 /\ log[k + 1].status = 200

\* the list holds `before` and then one more entity
ListsAfter(list, before) ==
    /\ Len(list) = Len(before) + 1
    /\ SubSeq(list, 1, Len(before)) = before

C6_RoundTripAmended ==
    \A k \in DOMAIN log :
        /\ CreateThenList(k, "POST_USER", "GET_USERS") =>
              LET list == log[k + 1].body
                  e == list[Len(list)]
              IN  /\ ListsAfter(list, log[k].pre)
                  /\ KeepsDraft(e, log[k].arg)
                  /\ e.id = log[k].body.id
                  /\ DOMAIN e = DraftFields(log[k].arg) \cup {"id"}
        /\ CreateThenList(k, "POST_TASK", "GET_TASKS") =>
              LET list == log[k + 1].body
                  e == list[Len(list)]
              IN  /\ ListsAfter(list, log[k].pre.rows)
                  /\ KeepsDraft(e, log[k].arg)
                  /\ e.id = log[k].body.id
                  /\ DOMAIN e = DraftFields(log[k].arg) \cup {"id", "completed"}
                  /\ e.completed = 0

\* a task is created in a table that holds one already, and then listed
C6_Witness ==
    \E k \in DOMAIN log :
        /\ CreateThenList(k, "POST_TASK", "GET_TASKS")
        /\ Len(log[k].pre.rows) >= 1
        /\ Len(log[k + 1].body) >= 2

(***************************************************************************)
(* C6 as stated: after a create succeeds, the list returned by the next    *)
(* GET of the same resource contains an entity whose fields are the        *)
(* draft's fields plus the assigned id, no other field added, dropped or   *)
(* altered, the entities stored before listed unchanged and before it.     *)
(***************************************************************************)
C6_RoundTrip ==
    \A k \in DOMAIN log :
        \A res \in {<<"POST_USER", "GET_USERS">>, <<"POST_TASK", "GET_TASKS">>} :
            CreateThenList(k, res[1], res[2]) =>
                LET list == log[k + 1].body
                    e == list[Len(list)]
                IN  /\ Len(list) >= 1
                    /\ KeepsDraft(e, log[k].arg)
                    /\ e.id = log[k].body.id
                    /\ DOMAIN e = DraftFields(log[k].arg) \cup {"id"}

(***************************************************************************)
(* C7: PATCH /api/tasks/:id on an existing task flips its completed field  *)
(* exactly once per call and changes no other field or task; two           *)
(* consecutive PATCH calls on the same id restore the original value.      *)
(* (A call during which a database query was rejected is not counted.)     *)
(***************************************************************************)
\* the rows with the completed field of task n negated
Flipped(rows, n) ==
    [i \in DOMAIN rows |->
        IF rows[i].id = n
        THEN [rows[i] EXCEPT !.completed = IF @ = 0 THEN 1 ELSE 0]
        ELSE rows[i]]

\* exchange k is a PATCH of a stored task during which no query was rejected
PatchOfStored(k) ==
    /\ k \in Done("PATCH_TASK")
    /\ log[k].logged \notin DbErrors
    /\ IsNumeral(log[k].arg)
    /\ NumeralVal(log[k].arg) \in Ids(log[k].pre.rows)

C7_PatchTogglesOnce ==
    \A k \in DOMAIN log :
        /\ PatchOfStored(k) =>
              /\ log[k].post.rows = Flipped(log[k].pre.rows, NumeralVal(log[k].arg))
              /\ log[k].post.rows # log[k].pre.rows
        /\ (PatchOfStored(k) /\ PatchOfStored(k + 1) /\ log[k].arg = log[k + 1].arg) =>
              log[k + 1].post.rows = log[k].pre.rows

\* The same statement where `db` is bound (the guide's listing of the server):
\* there every PATCH of a stored task flips it once, and two in a row restore it.
PatchTogglesOnceWhereDbIsRequired ==
    server = "tasksGuide" => C7_PatchTogglesOnce

(***************************************************************************)
(* C8: PATCH /api/tasks/:id for an id that is not in the tasks store is    *)
(* answered with status 404, never with a 200 success response.            *)
(* (A call whose handler caught an error answers 500 and is not counted.)  *)
(***************************************************************************)
C8_PatchAbsentTaskIs404 ==
    \A k \in Done("PATCH_TASK") :
        LET e == log[k] IN
        (e.logged = "none" /\ IsNumeral(e.arg) /\ NumeralVal(e.arg) \notin Ids(e.pre.rows)) =>
            e.status = 404

(***************************************************************************)
(* C9: DELETE /api/tasks/:id for an id that is not in the tasks store is   *)
(* answered with status 404, never with a 200 success response such as     *)
(* {success:true}.                                                         *)
(* (A call whose handler caught an error answers 500 and is not counted.)  *)
(***************************************************************************)
C9_DeleteAbsentTaskIs404 ==
    \A k \in Done("DELETE_TASK") :
        LET e == log[k] IN
        (e.logged = "none" /\ IsNumeral(e.arg) /\ NumeralVal(e.arg) \notin Ids(e.pre.rows)) =>
            e.status = 404

(***************************************************************************)
(* C10: for every endpoint that takes a path id, a request whose id is     *)
(* not numeric is answered with status 400, never with 404, 200 or 500,    *)
(* and the store is unchanged.                                             *)
(* (A call whose handler caught an error answers 500 and is not counted.)  *)
(***************************************************************************)
C10_NonNumericIdIs400 ==
    \A k \in Done("DELETE_USER") \cup Done("PATCH_TASK") \cup Done("DELETE_TASK") :
        LET e == log[k] IN
        (e.logged = "none" /\ NotNumeric(e.arg)) =>
            /\ e.status = 400
            /\ e.post = e.pre

(***************************************************************************)
(* C11: for every tasks handler, when a database query of the request      *)
(* fails, the response is status 500 with the handler's error body (for    *)
(* GET: {error:'Errore nel recupero tasks'}) and holds no entity data; no  *)
(* request gets both a success body and an error (it has one response).    *)
(***************************************************************************)
TaskOps == {"GET_TASKS", "POST_TASK", "PATCH_TASK", "DELETE_TASK"}

\* exchange k is one of a tasks handler that had a query rejected
QueryFailed(k) ==
    k \in DOMAIN log /\ log[k].op \in TaskOps /\ log[k].logged \in DbErrors

C11_QueryFailureIs500 ==
    /\ \A k \in DOMAIN log :
          QueryFailed(k) =>
              /\ log[k].status = 500
              /\ log[k].by = "handler"
              /\ DOMAIN log[k].body = {"error"}
              /\ log[k].body.error \in
                    {"Errore nel recupero tasks", "Errore creazione task",
                     "Errore toggle task", "Errore eliminazione task"}
              /\ (log[k].op = "GET_TASKS" =>
                    log[k].body = [error |-> "Errore nel recupero tasks"])
    /\ \A k, j \in DOMAIN log : k # j => log[k].rid # log[j].rid

\* a GET whose SELECT was rejected, then a PATCH whose SELECT was rejected
\* after its UPDATE had changed the table
C11_Witness ==
    /\ QueryFailed(1) /\ log[1].op = "GET_TASKS"
    /\ QueryFailed(2) /\ log[2].op = "PATCH_TASK"
    /\ log[2].post.rows # log[2].pre.rows

(***************************************************************************)
(* C12: every request to every endpoint of the users and tasks back ends   *)
(* is answered by exactly one response written by its own handler: no      *)
(* exception escapes a handler, and no handler writes a response and then  *)
(* fails.                                                                  *)
(***************************************************************************)
C12_NoExceptionEscapes ==
    /\ \A k \in DOMAIN log : log[k].by = "handler" /\ ~log[k].threw
    /\ \A k, j \in DOMAIN log : k # j => log[k].rid # log[j].rid

(***************************************************************************)
(* C13: the body of a 500 response of a tasks handler does not depend on   *)
(* the internal error: two exchanges of the same endpoint that failed with *)
(* different errors have the same status and body, the error itself being  *)
(* only what the handler logged.                                           *)
(***************************************************************************)
C13_ErrorBodyIndependentOfError ==
    \A k, j \in DOMAIN log :
        (QueryFailed(k) /\ QueryFailed(j) /\ log[k].op = log[j].op) =>
            /\ log[k].status = log[j].status
            /\ log[k].body = log[j].body
            /\ \A f \in DOMAIN log[k].body : log[k].body[f] \notin DbErrors

\* the same endpoint failed twice, with different errors
C13_Witness ==
    \E k, j \in DOMAIN log :
        /\ QueryFailed(k) /\ QueryFailed(j)
        /\ log[k].op = log[j].op
        /\ log[k].logged # log[j].logged

(***************************************************************************)
(* Vocabulary of the client properties                                     *)
(***************************************************************************)
\* the subscriber of operation op has just been given an outcome
Delivered(op) == cb.op = op

\* the exchange behind the latest callback failed: transport failure
\* (status 0) or a response outside 2xx
ExchangeFailed == cb.op # "none" /\ ~HttpOk(cb.raw.status)

\* the fixed messages of UserService, one per operation
DomainMessages ==
    [getUsers |-> "Errore nel recupero degli utenti",
     addUser |-> "Errore nell'aggiunta dell'utente.",
     removeUser |-> "Errore nella cancellazione dell'utente."]

(***************************************************************************)
(* C14: for every operation of UserService, a transport failure or a       *)
(* response outside 2xx makes the observable signal an error that is a new *)
(* Error carrying that operation's fixed message; the HTTP error never     *)
(* reaches the subscriber and no value is emitted for the failed exchange. *)
(***************************************************************************)
C14_FailureBecomesDomainError ==
    ExchangeFailed =>
        /\ cb.kind = "error"
        /\ cb.value = [name |-> "Error", message |-> DomainMessages[cb.op]]
        /\ cb.value # cb.raw

\* a response outside 2xx (the users server's 500) was turned into the
\* domain error of removeUser
C14_Witness ==
    /\ Delivered("removeUser")
    /\ cb.raw.status = 500
    /\ cb.kind = "error"
    /\ cb.value.message = DomainMessages.removeUser

(***************************************************************************)
(* C15: the load of UsersComponent follows Idle -> Loading -> {Loaded,     *)
(* LoadFailed}: exactly one getUsers() per instance, at construction; it   *)
(* eventually ends in Loaded (the local list is the fetched list) or in    *)
(* LoadFailed; no add or remove triggers another load or moves the load    *)
(* back to Loading.                                                        *)
(***************************************************************************)
C15_LoadLifecycle ==
    /\ [](fetches = IF load = "Idle" THEN 0 ELSE 1)
    /\ [][/\ (load = "Idle") => (load' \in {"Idle", "Loading"})
          /\ (load = "Loading") => (load' \in {"Loading", "Loaded", "LoadFailed"})
          /\ (load \in {"Loaded", "LoadFailed"}) => (load' = load)
          /\ (load = "Loading" /\ load' = "Loaded") =>
                (cb'.op = "getUsers" /\ comp'.users = cb'.raw.body)
          /\ (load' # load) => (fetches' = 1)]_<<load, fetches>>
    /\ <>(load \in {"Loaded", "LoadFailed"})

\* the load ended after an add had already been delivered, and no second
\* getUsers() was made
C15_Witness ==
    /\ load = "Loaded"
    /\ Delivered("getUsers")
    /\ Len(cb.before.users) > 0
    /\ fetches = 1

(***************************************************************************)
(* C16: when addUser of UsersComponent succeeds, the user returned by the  *)
(* server (with the id the server assigned, not the placeholder 0) is      *)
(* appended at the end of the local list, every other local entry is       *)
(* unchanged, and the draft is reset to its empty initial value.           *)
(***************************************************************************)
C16_AddAppendsReturnedUser ==
    (Delivered("addUser") /\ cb.kind = "next") =>
        /\ cb.value = cb.raw.body
        /\ cb.value.id # 0
        /\ cb.after.users = Append(cb.before.users, cb.raw.body)
        /\ cb.after.newUser = EmptyUser

\* a typed draft was saved and appended to a loaded list
C16_Witness ==
    /\ Delivered("addUser") /\ cb.kind = "next"
    /\ Len(cb.before.users) >= 2
    /\ cb.before.newUser \in TypedUsers
    /\ Len(cb.after.users) = 3

(***************************************************************************)
(* C17: when removeUser(id) of UsersComponent succeeds, the local list     *)
(* afterwards is exactly the previous local entries whose id differs from  *)
(* id, in the same order.                                                  *)
(***************************************************************************)
C17_RemoveFiltersLocalList ==
    (Delivered("removeUser") /\ cb.kind = "next") =>
        cb.after.users = Without(cb.before.users, cb.arg)

\* a user of a loaded list of two was removed
C17_Witness ==
    /\ Delivered("removeUser") /\ cb.kind = "next"
    /\ Len(cb.before.users) = 2
    /\ cb.arg \in Ids(cb.before.users)
    /\ Len(cb.after.users) = 1

(***************************************************************************)
(* C18: when a load, an add or a remove of UsersComponent fails, the local *)
(* list and the draft are exactly what they were before the failure was    *)
(* delivered.                                                              *)
(***************************************************************************)
C18_FailureLeavesComponent ==
    (cb.op # "none" /\ cb.kind = "error") =>
        /\ cb.after.users = cb.before.users
        /\ cb.after.newUser = cb.before.newUser

\* an add failed while the list was loaded and a draft was typed
C18_Witness ==
    /\ Delivered("addUser") /\ cb.kind = "error"
    /\ Len(cb.before.users) >= 2
    /\ cb.before.newUser \in TypedUsers
    /\ comp = cb.before

(***************************************************************************)
(* C19: when a load, an add or a remove of UsersComponent fails, the       *)
(* domain error message of UserService is shown to the user; no failed     *)
(* operation is recorded in the console only.                              *)
(***************************************************************************)
C19_FailureIsShown ==
    (cb.op # "none" /\ cb.kind = "error") =>
        cb.value.message \in ui.alerts

(***************************************************************************)
(* C20 as amended: the in-memory id policy agrees with an auto-increment   *)
(* primary key only while the user with the largest id assigned so far is  *)
(* still stored: a create on such a store (or the first create on an       *)
(* empty store) is assigned the same id by both, and the in-memory id is   *)
(* never larger than the auto-increment id.                                *)
(***************************************************************************)
\* the latest completed exchange is a create on the users store
LastIsCreate == Len(log) > 0 /\ log[Len(log)].op = "POST_USER"

C20_SameIdWhileLargestIsStored ==
    LastIsCreate =>
        LET e == log[Len(log)] IN
        /\ e.body.id <= autoStore.last
        /\ (autoStore.last - 1 \in Ids(e.pre) \/ autoStore.last = 1) =>
              e.body.id = autoStore.last

\* a create after the removal of a user that is not the one created last
C20_Witness ==
    /\ LastIsCreate
    /\ Len(log) >= 2 /\ log[1].op = "DELETE_USER" /\ log[1].status = 200
    /\ autoStore.last - 1 \in Ids(log[1].post)
    /\ log[2].body.id = autoStore.last

(***************************************************************************)
(* C20 as stated: the in-memory id policy is equivalent to an              *)
(* auto-increment primary key: run on the same creates and removals from   *)
(* the same contents, each create is assigned the same id in both, so an   *)
(* id that was removed is never assigned again.                            *)
(***************************************************************************)
C20_EquivalentToAutoIncrement ==
    /\ LastIsCreate => log[Len(log)].body.id = autoStore.last
    /\ \A k \in Done("DELETE_USER") :
          (log[k].status = 200 /\ k + 1 \in Done("POST_USER")) =>
              log[k + 1].body.id # log[k].body.id

(***************************************************************************)
(* Vocabulary of the properties of concurrent requests                     *)
(***************************************************************************)
\* the addUser exchanges the server has answered with 200 and whose response
\* has not been delivered yet
AnsweredAdds ==
    {i \in Pending : /\ net[i].op = "addUser"
                     /\ net[i].stage = "response"
                     /\ net[i].status = 200}

\* the entities of a list, as a set
Entities(list) == {list[i] : i \in DOMAIN list}

C22_LocalListMatchesStore ==
    (load = "Loaded" /\ Pending = {} /\ ui.console = {}) =>
        /\ Len(comp.users) = Len(users)
        /\ Entities(comp.users) = Entities(users)

(***************************************************************************)
(* C23: under any interleaving of concurrent requests on the same task,    *)
(* the entity returned by PATCH /api/tasks/:id is that task as it is       *)
(* immediately after this request's own toggle: its completed value is the *)
(* negation of the value the toggle found, even when another PATCH or a    *)
(* DELETE of the same id runs between this handler's UPDATE and its        *)
(* SELECT.  (A call whose handler caught an error is not counted.)         *)
(***************************************************************************)
C23_PatchReturnsOwnToggle ==
    \A k \in DOMAIN log :
        (PatchOfStored(k) /\ log[k].logged = "none") =>
            LET n == NumeralVal(log[k].arg)
                toggled == Flipped(log[k].pre.rows, n)
            IN  /\ log[k].status = 200
                /\ \E i \in DOMAIN toggled :
                      toggled[i].id = n /\ log[k].body = toggled[i]

(***************************************************************************)
(* C24: for every integer id, the request of UserService.removeUser(id) is *)
(* a DELETE routed to the users delete-by-id handler, and the id the       *)
(* handler parses from the path equals id, so a successful removeUser(id)  *)
(* removes from the server's store the user with that id and no other.     *)
(***************************************************************************)
\* largest absolute value of the ids the path is computed for
MaxId == 12

CheckedIds == (0 - MaxId)..MaxId

====
